---- MODULE Spec2Model ----
(***************************************************************************)
(* kpf: the forward-session manager (internal/portforward/manager.go) and  *)
(* the commands of the UI loop that drive it (internal/tui/commands.go).   *)
(*                                                                         *)
(* Every StartForwardWithLocalPort call is a thread with its own           *)
(* ForwardInfo object; m.forwards maps a key to the object it points to.   *)
(* Steps are cut where the code takes or releases m.mu, or touches a       *)
(* channel outside the lock.                                               *)
(***************************************************************************)
EXTENDS Integers, FiniteSets, Sequences, TLC

\* Bounds of the model.
MaxCalls == 2
NumKeys == 2
NumPorts == 1

Calls == 1..MaxCalls     \* StartForwardWithLocalPort calls; call c owns ForwardInfo c
Keys == 1..NumKeys       \* "%s/%s:%d" of (namespace, service, remotePort)
Ports == 1..NumPorts     \* local TCP ports

VARIABLES
    forwards,   \* Manager.forwards: a map, as a function on the keys present
    fw,         \* the ForwardInfo object of each call
    mu,         \* Manager.mu, and the StopForward / StopAll that holds it across steps
    pc,         \* position of each StartForwardWithLocalPort call
    key,        \* its key
    pref,       \* its preferredLocalPort (0: none)
    ret,        \* what it returned
    worker,     \* the tunnel goroutine it launched: where it is or how it ended
    bound,      \* local ports some listener holds
    panicked,   \* a goroutine panicked: the process is gone
    quit,       \* the UI loop returned tea.Quit
    table,      \* Model.table: the ServiceTable
    viewMode,   \* Model.viewMode
    previousView, \* Model.previousView
    conflictPort, \* Model.conflictPort
    remotePort, \* Model.remotePort
    portInput,  \* Model.portInput, as the port it parses to
    filterType, \* Model.filterType ("": all)
    filterInput, \* Model.filterInput
    activeForwardsCount, \* Model.activeForwardsCount
    cmd,        \* the command of the UI loop that runs each call, and its message
    got         \* what the last query of the manager returned to its caller

\* The state of the UI loop (tui.Model) and of the callers of the manager.
tui == <<table, viewMode, previousView, conflictPort, remotePort, portInput, filterType,
         filterInput, activeForwardsCount, cmd, got>>

vars == <<forwards, fw, mu, pc, key, pref, ret, worker, bound, panicked, quit, tui>>

\* k8s.ForwardingState
ForwardingStates == {"inactive", "pending", "active", "failed"}

\* The zero ForwardInfo.
ZeroForwardInfo ==
    [ForwardingState |-> "inactive", FailureReason |-> "", LocalPort |-> 0,
     StopChan |-> "nil", ReadyChan |-> "nil"]

MuFree == [op |-> "none", key |-> 1, by |-> 0]

NoReturn == [err |-> "none", port |-> 0]

(***************************************************************************)
(* ServiceTable (internal/tui/service_table.go).  A table is a record of   *)
(* the fields of the struct; every method is an operator from the table    *)
(* before to the table after.  Names and namespaces are numbered in their  *)
(* string order.                                                           *)
(***************************************************************************)

\* Bounds of the table.
MaxRows == 4
MaxHeight == 5

\* The (namespace, service, port) of the port rows a snapshot can hold.
RowKeys ==
    {[Namespace |-> 1, Name |-> 1, Port |-> 1],
     [Namespace |-> 1, Name |-> 2, Port |-> 2],
     [Namespace |-> 2, Name |-> 1, Port |-> 1],
     [Namespace |-> 2, Name |-> 2, Port |-> 2]}

\* The states loadServices reads from the manager for the port of a key.
SnapshotStates(k) == IF k.Name = 2 THEN {"active"} ELSE {"inactive"}

\* k8s.ForwardingState as the integer of its iota.
StateOrdinal(state) ==
    CASE state = "inactive" -> 0
      [] state = "pending" -> 1
      [] state = "active" -> 2
      [] state = "failed" -> 3

\* fmt.Sprintf("%s/%s:%d", row.Namespace, row.Name, row.Port)
RowKey(row) == [Namespace |-> row.Namespace, Name |-> row.Name, Port |-> row.Port]

\* A service snapshot, one element per port: what SetServices turns into rows.
PortRecord(k, state) ==
    [Namespace |-> k.Namespace, Name |-> k.Name, Port |-> k.Port,
     ForwardingState |-> state,
     ForwardingPort |-> IF state = "active" THEN 1 ELSE 0]

\* The services come in the order of the list the API server returns, by
\* namespace and name, and the ports of a service in the order of its spec.
IsSnapshot(s) ==
    \A i, j \in 1..Len(s) :
        i < j => \/ s[i].Namespace < s[j].Namespace
                 \/ /\ s[i].Namespace = s[j].Namespace
                    /\ s[i].Name < s[j].Name
                 \/ /\ s[i].Namespace = s[j].Namespace
                    /\ s[i].Name = s[j].Name
                    /\ s[i].Port < s[j].Port

Snapshots ==
    UNION {{s \in [1..n -> UNION {{PortRecord(k, st) : st \in SnapshotStates(k)} :
                                      k \in RowKeys}] :
               IsSnapshot(s)} : n \in 0..MaxRows}

(***************************************************************************)
(* Text.  A Go string is the sequence of its characters; the names and     *)
(* namespaces of the rows are numbered in the order of their strings.      *)
(***************************************************************************)

\* unicode.ToLower of a character of the texts below
Lower(ch) ==
    CASE ch = "C" -> "c"
      [] ch = "I" -> "i"
      [] ch = "P" -> "p"
      [] ch = "T" -> "t"
      [] OTHER -> ch

\* strings.ToLower
ToLower(s) == [i \in 1..Len(s) |-> Lower(s[i])]

\* strings.Contains
Contains(s, substr) ==
    \E i \in 0..(Len(s) - Len(substr)) : SubSeq(s, i + 1, i + Len(substr)) = substr

\* strings.EqualFold
EqualFold(s, t) == ToLower(s) = ToLower(t)

\* fmt.Sprintf("%d", n)
DigitChars == <<"0", "1", "2", "3", "4", "5", "6", "7", "8", "9">>

RECURSIVE Sprintf_d(_)
Sprintf_d(n) ==
    IF n < 10 THEN <<DigitChars[n + 1]>>
    ELSE Sprintf_d(n \div 10) \o <<DigitChars[(n % 10) + 1]>>

\* The strings of a row: the namespaces "dev" < "ops", the services
\* "api" < "web"; every service is a ClusterIP service without a cluster or
\* external address, its ports unnamed TCP ports.
NamespaceText(row) == IF row.Namespace = 1 THEN <<"d", "e", "v">> ELSE <<"o", "p", "s">>
NameText(row) == IF row.Name = 1 THEN <<"a", "p", "i">> ELSE <<"w", "e", "b">>
TypeText(row) == <<"C", "l", "u", "s", "t", "e", "r", "I", "P">>
ClusterIPText(row) == <<"<", "n", "o", "n", "e", ">">>
ExternalIPText(row) == <<"<", "n", "o", "n", "e", ">">>
PortNameText(row) == <<"-">>
ProtocolText(row) == <<"T", "C", "P">>

\* The values of a status filter.
StatusActive == <<"a", "c", "t", "i", "v", "e">>
StatusInactive == <<"i", "n">> \o StatusActive
StatusPending == <<"p", "e", "n", "d", "i", "n", "g">>
StatusFailed == <<"f", "a", "i", "l", "e", "d">>

\* The filter maps the filter view can build.
FilterMaps ==
    {<<>>} \cup {[x \in {"status"} |-> v] : v \in {StatusActive, StatusPending}}
           \cup {[x \in {"name"} |-> n] : n \in {<<"a", "P">>}}

SortFields == {"namespace", "name", "status", "ports", "localport"}

\* NewServiceTable
NewServiceTable ==
    [rows |-> <<>>, filteredRows |-> <<>>, selectedRow |-> 0, height |-> 30,
     offset |-> 0, filters |-> <<>>]

\* getActiveRows
FiltersActive(t) == DOMAIN t.filters # {}
getActiveRows(t) == IF FiltersActive(t) THEN t.filteredRows ELSE t.rows

\* A write through the slice getActiveRows returned.
SetActiveRows(t, rows) ==
    IF FiltersActive(t) THEN [t EXCEPT !.filteredRows = rows]
    ELSE [t EXCEPT !.rows = rows]

\* rows[i].Selected = (i == index), over the whole slice
MarkSelected(rows, index) ==
    [i \in 1..Len(rows) |-> [rows[i] EXCEPT !.Selected = (i = index + 1)]]

\* rows[i].Selected = false over the slice, then rows[index].Selected = true
\* when index is inside it.
ClearSelected(rows) == [i \in 1..Len(rows) |-> [rows[i] EXCEPT !.Selected = FALSE]]

\* adjustScrollOffset
adjustScrollOffset(t) ==
    IF t.height <= 3 THEN t
    ELSE LET availableRows == t.height - 2
             o1 == IF t.selectedRow < t.offset THEN t.selectedRow
                   ELSE IF t.selectedRow >= t.offset + availableRows
                        THEN t.selectedRow - availableRows + 1
                        ELSE t.offset
             m0 == Len(getActiveRows(t)) - availableRows
             maxOffset == IF m0 < 0 THEN 0 ELSE m0
         IN [t EXCEPT !.offset = IF o1 > maxOffset THEN maxOffset ELSE o1]

\* The searchFields of the generic search (service_table.go:620-629).
searchFields(row) ==
    {NamespaceText(row), NameText(row), TypeText(row), ClusterIPText(row),
     ExternalIPText(row), PortNameText(row), Sprintf_d(row.Port), ProtocolText(row)}

\* matchesFilters: every filter of the map holds for the row.
matchesFilters(row, filters) ==
    \A filterKey \in DOMAIN filters :
        LET filterValue == ToLower(filters[filterKey])
        IN CASE filterKey = "status" ->
                    /\ filterValue = StatusActive => row.ForwardingState = "active"
                    /\ filterValue = StatusInactive => row.ForwardingState # "active"
             [] filterKey = "type" -> Contains(ToLower(TypeText(row)), filterValue)
             [] filterKey = "name" -> Contains(ToLower(NameText(row)), filterValue)
             [] filterKey = "protocol" -> EqualFold(ProtocolText(row), filterValue)
             [] OTHER -> \E field \in searchFields(row) :
                             Contains(ToLower(field), filterValue)

\* A filter that leaves the selection index where it was.
adjustAfterFilter_KeepsSelection(t) == [t EXCEPT !.offset = 0]

\* adjustAfterFilter
adjustAfterFilter(t) ==
    IF Len(t.filteredRows) > 0
    THEN [t EXCEPT !.selectedRow = 0, !.offset = 0,
                   !.filteredRows = MarkSelected(t.filteredRows, 0)]
    ELSE [t EXCEPT !.selectedRow = -1, !.offset = 0]

\* A filter that throws away the rows it does not keep.
ApplyFilters_InPlace(t, filters) ==
    LET kept == IF DOMAIN filters = {} THEN t.rows
                ELSE SelectSeq(t.rows, LAMBDA row : matchesFilters(row, filters))
    IN adjustAfterFilter([t EXCEPT !.filters = filters, !.filteredRows = kept,
                                   !.rows = kept])

\* ApplyFilters
ApplyFilters(t, filters) ==
    adjustAfterFilter(
        [t EXCEPT !.filters = filters,
                  !.filteredRows =
                      IF DOMAIN filters = {} THEN t.rows
                      ELSE SelectSeq(t.rows, LAMBDA row : matchesFilters(row, filters))])

\* The index a lookup of the key in the rows ends with: the first match, else 0.
IndexOfKey(rows, k) ==
    IF \E i \in 1..Len(rows) : RowKey(rows[i]) = k
    THEN (CHOOSE i \in 1..Len(rows) :
              /\ RowKey(rows[i]) = k
              /\ \A j \in 1..(i - 1) : RowKey(rows[j]) # k) - 1
    ELSE 0

\* if x >= len { x = len - 1 }; if x < 0 { x = 0 }
ClampRow(x, len) ==
    LET y == IF x >= len THEN len - 1 ELSE x
    IN IF y < 0 THEN 0 ELSE y

\* SetServices
SetServices(t, services) ==
    LET t1 == [t EXCEPT !.rows =
                  [i \in 1..Len(services) |->
                      [Namespace |-> services[i].Namespace,
                       Name |-> services[i].Name,
                       Port |-> services[i].Port,
                       ForwardingState |-> services[i].ForwardingState,
                       ForwardingPort |-> services[i].ForwardingPort,
                       Selected |-> FALSE]]]
        \* the key of the selected row, read once t.rows is rebuilt
        hasKey == t1.selectedRow >= 0 /\ t1.selectedRow < Len(getActiveRows(t1))
        t2 == ApplyFilters(t1, t1.filters)
        found == IF hasKey
                 THEN IndexOfKey(getActiveRows(t2),
                                 RowKey(getActiveRows(t1)[t1.selectedRow + 1]))
                 ELSE 0
        t3 == adjustScrollOffset(
                  [t2 EXCEPT !.selectedRow = ClampRow(found, Len(getActiveRows(t2)))])
    IN IF Len(getActiveRows(t3)) > 0
       THEN SetActiveRows(t3, MarkSelected(getActiveRows(t3), t3.selectedRow))
       ELSE t3

\* SetSize
SetSize(t, height) == [t EXCEPT !.height = height]

\* SetSelected
SetSelected(t, index) ==
    IF index >= 0 /\ index < Len(getActiveRows(t))
    THEN adjustScrollOffset(
             [SetActiveRows(t, MarkSelected(getActiveRows(t), index))
                 EXCEPT !.selectedRow = index])
    ELSE t

\* MoveUp
MoveUp(t) == IF t.selectedRow > 0 THEN SetSelected(t, t.selectedRow - 1) ELSE t

\* MoveDown
MoveDown(t) ==
    IF t.selectedRow < Len(getActiveRows(t)) - 1
    THEN SetSelected(t, t.selectedRow + 1)
    ELSE t

\* GetSelectedRow: the selected row, or none (nil).
GetSelectedRow(t) ==
    IF t.selectedRow >= 0 /\ t.selectedRow < Len(getActiveRows(t))
    THEN {getActiveRows(t)[t.selectedRow + 1]}
    ELSE {}

\* The comparison SortBy hands to sort.Slice for a field, ascending.
ByNameThenPort(a, b) == IF a.Name = b.Name THEN a.Port < b.Port ELSE a.Name < b.Name

FieldLess(field, a, b) ==
    CASE field = "namespace" ->
             IF a.Namespace = b.Namespace THEN ByNameThenPort(a, b)
             ELSE a.Namespace < b.Namespace
      [] field = "status" ->
             IF a.ForwardingState # b.ForwardingState
             THEN StateOrdinal(a.ForwardingState) < StateOrdinal(b.ForwardingState)
             ELSE ByNameThenPort(a, b)
      [] field = "ports" ->
             IF a.Port = b.Port THEN a.Name < b.Name ELSE a.Port < b.Port
      [] field = "localport" ->
             IF a.ForwardingPort = b.ForwardingPort THEN ByNameThenPort(a, b)
             ELSE a.ForwardingPort < b.ForwardingPort
      [] OTHER -> ByNameThenPort(a, b)

\* A comparison that takes no notice of the direction.
Less_IgnoresDirection(field, ascending, a, b) == FieldLess(field, a, b)

\* if !ascending { result = !result }
Less(field, ascending, a, b) ==
    IF ascending THEN FieldLess(field, a, b) ELSE ~FieldLess(field, a, b)

\* The ways to rearrange a slice of n rows.
Rearrangements ==
    [n \in 0..MaxRows |->
        {q \in [1..n -> 1..n] : \A i, j \in 1..n : i # j => q[i] # q[j]}]

\* sort.Slice: some permutation of the slice in which no two rows stand
\* against the comparison; rows the comparison does not tell apart may come
\* out in any order.
SortSlice(rows, field, ascending) ==
    {[i \in 1..Len(rows) |-> rows[p[i]]] :
        p \in {q \in Rearrangements[Len(rows)] :
                  /\ \A i, j \in 1..Len(rows) :
                        (i < j /\ Less(field, ascending, rows[q[j]], rows[q[i]]))
                        => Less(field, ascending, rows[q[i]], rows[q[j]])}}

\* What SortBy does once both slices are sorted: the Selected flags, and the
\* selection index brought back into range.
AfterSort(t) ==
    LET rows == ClearSelected(getActiveRows(t))
        sel == ClampRow(t.selectedRow, Len(rows))
    IN [SetActiveRows(t, IF Len(rows) > 0 THEN MarkSelected(rows, sel) ELSE rows)
           EXCEPT !.selectedRow = sel]

\* SortBy: the tables it can end with.
SortBy(t, field, ascending) ==
    {AfterSort([t EXCEPT !.rows = r, !.filteredRows = f]) :
        r \in SortSlice(t.rows, field, ascending),
        f \in IF FiltersActive(t) THEN SortSlice(t.filteredRows, field, ascending)
              ELSE {t.filteredRows}}

\* The manager's own state.
manager == <<forwards, fw, mu, pc, key, pref, ret, worker, bound, panicked, quit>>

\* No command returned by Update yet.
NoCommand ==
    [name |-> "none", branch |-> "none", msg |-> "none", pending |-> "none", port |-> 0,
     services |-> <<>>]

\* No query made yet.
NoResult == [op |-> "none", ptr |-> <<>>, val |-> <<>>]

\* NewManager, and NewModel with its NewServiceTable.
Init ==
    /\ forwards = <<>>
    /\ fw = [c \in Calls |-> ZeroForwardInfo]
    /\ mu = MuFree
    /\ pc = [c \in Calls |-> "idle"]
    /\ key = [c \in Calls |-> 1]
    /\ pref = [c \in Calls |-> 0]
    /\ ret = [c \in Calls |-> NoReturn]
    /\ worker = [c \in Calls |-> "none"]
    /\ bound \in {{}, {1}}
    /\ panicked = FALSE
    /\ quit = FALSE
    /\ table = NewServiceTable
    /\ viewMode = "listView"
    /\ previousView = "listView"
    /\ conflictPort = 0
    /\ remotePort = 0
    /\ portInput = 0
    /\ filterType = ""
    /\ filterInput = <<>>
    /\ activeForwardsCount = 0
    /\ cmd = [c \in Calls |-> NoCommand]
    /\ got = NoResult

\* The process is alive: no goroutine has panicked.
Running == ~panicked

TypeOK ==
    /\ DOMAIN forwards \subseteq Keys
    /\ \A k \in DOMAIN forwards : forwards[k] \in Calls
    /\ \A c \in Calls :
          /\ fw[c].ForwardingState \in ForwardingStates
          /\ fw[c].LocalPort \in {0} \cup Ports \cup Keys
          /\ fw[c].StopChan \in {"nil", "open", "closed"}
          /\ fw[c].ReadyChan \in {"nil", "open", "closed"}
          /\ key[c] \in Keys
          /\ pref[c] \in {0} \cup Ports \cup Keys
          /\ ret[c].port \in {0} \cup Ports \cup Keys
          /\ pc[c] \in {"idle", "stop", "check", "resolve", "store", "wait",
                        "cancelled", "timedout", "done", "panicked"}
          /\ worker[c] \in {"none", "new", "listening", "createFailed",
                            "forwardFailed", "stopped"}
    /\ mu.op \in {"none", "StopForward", "StopAll", "StopAllClose"}
    /\ mu.key \in Keys
    /\ mu.by \in {0} \cup Calls
    /\ mu.op \in {"StopForward", "StopAllClose"} => mu.key \in DOMAIN forwards
    /\ bound \subseteq Ports \cup Keys
    /\ panicked \in BOOLEAN
    /\ quit \in BOOLEAN

\* m.mu can be taken.
Unlocked == mu.op = "none"

\* A lookup that never finds the key.
Exists_NeverFound(k) == FALSE

\* _, exists := m.forwards[key]
Exists(k) == k \in DOMAIN forwards

\* A store that is dropped.
Put_Dropped(f, k, c) == f

\* m.forwards[key] = fw
Put(f, k, c) == [x \in DOMAIN f \cup {k} |-> IF x = k THEN c ELSE f[x]]

\* A delete that leaves the entry in the map.
Delete_KeepsEntry(f, k) == f

\* delete(m.forwards, key)
Delete(f, k) == [x \in DOMAIN f \ {k} |-> f[x]]

\* A failure recorded without its reason.
MarkFailed_NoReason(info, reason) == [info EXCEPT !.ForwardingState = "failed"]

\* fw.ForwardingState = Failed; fw.FailureReason = reason
MarkFailed(info, reason) ==
    [info EXCEPT !.ForwardingState = "failed", !.FailureReason = reason]

\* A close that is skipped.
CloseStopChan_Skipped(info) == info

\* close(fw.StopChan)
CloseStopChan(info) == [info EXCEPT !.StopChan = "closed"]

Return(c, err, port) == ret' = [ret EXCEPT ![c] = [err |-> err, port |-> port]]

(***************************************************************************)
(* StartForwardWithLocalPort                                               *)
(***************************************************************************)

\* What can go wrong between the existence check and the port choice
\* (manager.go:72-170), by the error returned.  "no pods available"
\* (manager.go:149) cannot happen: pods.Items holds one pod by then.
DiscoveryErrors ==
    {"failed to list pods", "failed to get endpoints", "no pods found",
     "no target reference found", "empty pod name", "failed to get pod",
     "pod name is empty"}

\* The FailureReason recorded with each error.
FailureReasonOf(err) ==
    CASE err = "failed to list pods" -> "Failed to list pods"
      [] err = "failed to get endpoints" -> "Failed to get endpoints"
      [] err = "no pods found" -> "No pods found for service"
      [] err = "no target reference found" -> "No target reference found for service"
      [] err = "empty pod name" -> "Empty pod name for service"
      [] err = "failed to get pod" -> "Failed to get pod"
      [] err = "pod name is empty" -> "Pod name is empty for service"
      [] err = "port is already in use" -> "Port is already in use"
      [] err = "failed to get free port" -> "Failed to get free port"
      [] err = "context cancelled" -> "Context cancelled"
      [] err = "timeout waiting for port forward to be ready" ->
             "Timeout waiting for port forward to be ready"

\* isPortAvailable: a bind-and-release probe.
isPortAvailable(port) == port \notin bound

\* getFreePort: the ports the OS may hand out.
getFreePort == Ports \ bound

\* The existence check under the lock, and the new pending ForwardInfo.
CheckExists(c, k) ==
    /\ Unlocked
    /\ IF Exists(k)
       THEN /\ pc' = [pc EXCEPT ![c] = "done"]
            /\ Return(c, "already active", 0)
            /\ UNCHANGED fw
       ELSE /\ pc' = [pc EXCEPT ![c] = "resolve"]
            /\ fw' = [fw EXCEPT ![c] =
                        [ZeroForwardInfo EXCEPT !.ForwardingState = "pending"]]
            /\ UNCHANGED ret

\* Calls are numbered in the order they arrive.
IsNextCall(c) == IF c = 1 THEN TRUE ELSE pc[c - 1] # "idle"

\* Keys are numbered in the order calls first use them.
IsNextKey(k) == \A j \in 1..(k - 1) : \E c \in Calls : pc[c] # "idle" /\ key[c] = j

\* A call arrives (commands.go:149, commands.go:189, or StartForward) and
\* makes its existence check.
StartCall(c) ==
    /\ Running
    /\ pc[c] = "idle"
    /\ IsNextCall(c)
    /\ \E k \in Keys, p \in {0} \cup Ports :
          /\ IsNextKey(k)
          /\ key' = [key EXCEPT ![c] = k]
          /\ pref' = [pref EXCEPT ![c] = p]
          /\ CheckExists(c, k)
    /\ UNCHANGED <<forwards, mu, worker, bound, panicked, quit>>
    /\ UNCHANGED tui

\* The existence check of a call that first stopped the key (commands.go:130).
StartCheck(c) ==
    /\ Running
    /\ pc[c] = "check"
    /\ CheckExists(c, key[c])
    /\ UNCHANGED <<forwards, mu, key, pref, worker, bound, panicked, quit>>
    /\ UNCHANGED tui

\* An early failure: recorded on fw, fw stored in the table, error returned.
FailEarly(c, err) ==
    /\ Unlocked
    /\ fw' = [fw EXCEPT ![c] = MarkFailed(fw[c], FailureReasonOf(err))]
    /\ forwards' = Put(forwards, key[c], c)
    /\ pc' = [pc EXCEPT ![c] = "done"]
    /\ Return(c, err, 0)
    /\ UNCHANGED worker

\* manager.go:202-283: the round tripper, the channels, and the goroutine.
Launch(c, localPort) ==
    \/ /\ pc' = [pc EXCEPT ![c] = "done"]
       /\ Return(c, "failed to create round tripper", 0)
       /\ UNCHANGED <<fw, forwards, worker>>
    \/ /\ fw' = [fw EXCEPT ![c].LocalPort = localPort,
                           ![c].StopChan = "open",
                           ![c].ReadyChan = "open"]
       /\ worker' = [worker EXCEPT ![c] = "new"]
       /\ pc' = [pc EXCEPT ![c] = "store"]
       /\ UNCHANGED <<forwards, ret>>

\* manager.go:72-283: discovery, the local port, the launch of the tunnel.
StartResolve(c) ==
    /\ Running
    /\ pc[c] = "resolve"
    /\ \/ \E err \in DiscoveryErrors : FailEarly(c, err)
       \/ /\ pref[c] > 0
          /\ IF isPortAvailable(pref[c])
             THEN Launch(c, pref[c])
             ELSE FailEarly(c, "port is already in use")
       \/ /\ pref[c] = 0
          /\ IF getFreePort = {}
             THEN FailEarly(c, "failed to get free port")
             ELSE \E p \in getFreePort : Launch(c, p)
    /\ UNCHANGED <<mu, key, pref, bound, panicked, quit>>
    /\ UNCHANGED tui

\* A start that stores its session and keeps m.mu while it waits.
StartStore_KeepsLock(c) ==
    /\ Running
    /\ pc[c] = "store"
    /\ Unlocked
    /\ forwards' = [x \in DOMAIN forwards \cup {key[c]} |->
                        IF x = key[c] THEN c ELSE forwards[x]]
    /\ mu' = [op |-> "StartForward", key |-> key[c], by |-> c]
    /\ pc' = [pc EXCEPT ![c] = "wait"]
    /\ UNCHANGED <<fw, key, pref, ret, worker, bound, panicked, quit>>
    /\ UNCHANGED tui

\* manager.go:285-288: the pending session goes into the table.
StartStore(c) ==
    /\ Running
    /\ pc[c] = "store"
    /\ Unlocked
    /\ forwards' = Put(forwards, key[c], c)
    /\ pc' = [pc EXCEPT ![c] = "wait"]
    /\ UNCHANGED <<fw, mu, key, pref, ret, worker, bound, panicked, quit>>
    /\ UNCHANGED tui

\* A start that stores its session again when it is ready.
StartReady_PutsBack(c) ==
    /\ Running
    /\ pc[c] = "wait"
    /\ fw[c].ReadyChan = "closed"
    /\ Unlocked
    /\ fw' = [fw EXCEPT ![c].ForwardingState = "active"]
    /\ forwards' = [x \in DOMAIN forwards \cup {key[c]} |->
                        IF x = key[c] THEN c ELSE forwards[x]]
    /\ pc' = [pc EXCEPT ![c] = "done"]
    /\ ret' = [ret EXCEPT ![c] = [err |-> "nil", port |-> fw[c].LocalPort]]
    /\ UNCHANGED <<mu, key, pref, worker, bound, panicked, quit>>
    /\ UNCHANGED tui

\* manager.go:291-296: readyChan is closed.
StartReady(c) ==
    /\ Running
    /\ pc[c] = "wait"
    /\ fw[c].ReadyChan = "closed"
    /\ Unlocked
    /\ fw' = [fw EXCEPT ![c].ForwardingState = "active"]
    /\ pc' = [pc EXCEPT ![c] = "done"]
    /\ Return(c, "nil", fw[c].LocalPort)
    /\ UNCHANGED <<forwards, mu, key, pref, worker, bound, panicked, quit>>
    /\ UNCHANGED tui

\* manager.go:297-302 and 305-310: the failure is recorded under the lock;
\* close(stopChan) follows outside it.
GiveUp(c, err, at) ==
    /\ Running
    /\ pc[c] = "wait"
    /\ Unlocked
    /\ fw' = [fw EXCEPT ![c] = MarkFailed(fw[c], FailureReasonOf(err))]
    /\ pc' = [pc EXCEPT ![c] = at]
    /\ UNCHANGED <<forwards, mu, key, pref, ret, worker, bound, panicked, quit>>
    /\ UNCHANGED tui

\* case <-ctx.Done()
StartCtxDone(c) == GiveUp(c, "context cancelled", "cancelled")

\* case <-time.After(10 * time.Second)
StartTimeout(c) ==
    GiveUp(c, "timeout waiting for port forward to be ready", "timedout")

\* manager.go:303-304 and 311-312: close(stopChan), which panics on a
\* channel that is closed already, and the error.
StartCloseStop(c) ==
    /\ Running
    /\ pc[c] \in {"cancelled", "timedout"}
    /\ IF fw[c].StopChan = "open"
       THEN /\ fw' = [fw EXCEPT ![c] = CloseStopChan(fw[c])]
            /\ pc' = [pc EXCEPT ![c] = "done"]
            /\ Return(c, IF pc[c] = "cancelled" THEN "context cancelled"
                         ELSE "timeout waiting for port forward to be ready", 0)
            /\ UNCHANGED panicked
       ELSE /\ panicked' = TRUE
            /\ pc' = [pc EXCEPT ![c] = "panicked"]
            /\ UNCHANGED <<fw, ret>>
    /\ UNCHANGED <<forwards, mu, key, pref, worker, bound, quit>>
    /\ UNCHANGED tui

(***************************************************************************)
(* The tunnel goroutine of a call (manager.go:226-283).  The monitor and   *)
(* the goroutine that runs pf.ForwardPorts are one worker here: the second *)
(* touches nothing of the manager, and what it reports reaches the table   *)
(* only through the monitor's select.                                      *)
(***************************************************************************)

\* The port the listener of a worker holds.
Held(c) == IF worker[c] = "listening" THEN {fw[c].LocalPort} ELSE {}

\* portforward.NewOnAddresses fails (manager.go:243-258).
WorkerNewFail(c) ==
    /\ Running
    /\ worker[c] = "new"
    /\ Unlocked
    /\ fw' = [fw EXCEPT ![c] =
                [MarkFailed(fw[c], "Failed to create port forwarder")
                    EXCEPT !.ReadyChan = "closed"]]
    /\ worker' = [worker EXCEPT ![c] = "createFailed"]
    /\ UNCHANGED <<forwards, mu, pc, key, pref, ret, bound, panicked, quit>>
    /\ UNCHANGED tui

\* portforward.NewOnAddresses succeeds, ForwardPorts binds the local port and
\* closes readyChan.
WorkerListen(c) ==
    /\ Running
    /\ worker[c] = "new"
    /\ fw[c].LocalPort \notin bound
    /\ bound' = bound \cup {fw[c].LocalPort}
    /\ fw' = [fw EXCEPT ![c].ReadyChan = "closed"]
    /\ worker' = [worker EXCEPT ![c] = "listening"]
    /\ UNCHANGED <<forwards, mu, pc, key, pref, ret, panicked, quit>>
    /\ UNCHANGED tui

\* manager.go:268-278: the entry the table holds under the key is marked.
MarkEntryFailed(k) ==
    IF Exists(k)
    THEN [fw EXCEPT ![forwards[k]] =
            MarkFailed(fw[forwards[k]], "Port forwarding failed")]
    ELSE fw

\* portforward.NewOnAddresses succeeded; ForwardPorts returns an error (dial,
\* listen, lost connection) and the monitor's select takes it.
WorkerForwardErr(c) ==
    /\ Running
    /\ worker[c] \in {"new", "listening"}
    /\ Unlocked
    /\ fw' = MarkEntryFailed(key[c])
    /\ bound' = bound \ Held(c)
    /\ worker' = [worker EXCEPT ![c] = "forwardFailed"]
    /\ UNCHANGED <<forwards, mu, pc, key, pref, ret, panicked, quit>>
    /\ UNCHANGED tui

\* manager.go:279-281: portforward.NewOnAddresses succeeded, stopChan is
\* closed and the select takes that case,
\* whatever ForwardPorts returns; the listener is released.
WorkerStopped(c) ==
    /\ Running
    /\ worker[c] \in {"new", "listening"}
    /\ fw[c].StopChan = "closed"
    /\ bound' = bound \ Held(c)
    /\ worker' = [worker EXCEPT ![c] = "stopped"]
    /\ UNCHANGED <<forwards, fw, mu, pc, key, pref, ret, panicked, quit>>
    /\ UNCHANGED tui

(***************************************************************************)
(* StopForward and StopAll.  Both hold m.mu from the first line to the     *)
(* last, but close(stopChan) of StartForwardWithLocalPort is outside the   *)
(* lock, so it can fall between the select that finds StopChan open and    *)
(* the close that follows.                                                 *)
(***************************************************************************)

\* Where the caller of a StopForward goes on: a retry makes its check.
AfterStop(by) == IF by = 0 THEN pc ELSE [pc EXCEPT ![by] = "check"]

\* manager.go:317-327: the lock, the lookup, the select on StopChan.
StopLookup(k, by) ==
    /\ Unlocked
    /\ IF ~Exists(k)
       THEN /\ pc' = AfterStop(by)
            /\ UNCHANGED <<forwards, mu>>
       ELSE IF fw[forwards[k]].StopChan = "open"
       THEN /\ mu' = [op |-> "StopForward", key |-> k, by |-> by]
            /\ pc' = IF by = 0 THEN pc ELSE [pc EXCEPT ![by] = "stop"]
            /\ UNCHANGED forwards
       ELSE /\ forwards' = Delete(forwards, k)
            /\ pc' = AfterStop(by)
            /\ UNCHANGED mu

\* StopForward of an active row (commands.go:121).
StopForward(k) ==
    /\ Running
    /\ StopLookup(k, 0)
    /\ UNCHANGED <<fw, key, pref, ret, worker, bound, panicked, quit>>
    /\ UNCHANGED tui

\* StopForward of a failed row, before the retry (commands.go:125).
RetryStop(c) ==
    /\ Running
    /\ pc[c] = "idle"
    /\ IsNextCall(c)
    /\ \E k \in Keys, p \in {0} \cup Ports :
          /\ IsNextKey(k)
          /\ key' = [key EXCEPT ![c] = k]
          /\ pref' = [pref EXCEPT ![c] = p]
          /\ StopLookup(k, c)
    /\ UNCHANGED <<fw, ret, worker, bound, panicked, quit>>
    /\ UNCHANGED tui

\* manager.go:328-331: close(fw.StopChan), delete, unlock.
StopForwardClose ==
    /\ Running
    /\ mu.op = "StopForward"
    /\ IF fw[forwards[mu.key]].StopChan = "open"
       THEN /\ fw' = [fw EXCEPT ![forwards[mu.key]] = CloseStopChan(fw[forwards[mu.key]])]
            /\ forwards' = Delete(forwards, mu.key)
            /\ mu' = MuFree
            /\ pc' = AfterStop(mu.by)
            /\ UNCHANGED panicked
       ELSE /\ panicked' = TRUE
            /\ UNCHANGED <<fw, forwards, mu, pc>>
    /\ UNCHANGED <<key, pref, ret, worker, bound, quit>>
    /\ UNCHANGED tui

\* A quit key: Update calls StopAll (part_003:261-273), which takes the lock.
StopAll ==
    /\ Running
    /\ ~quit
    /\ Unlocked
    /\ mu' = [op |-> "StopAll", key |-> 1, by |-> 0]
    /\ UNCHANGED <<forwards, fw, pc, key, pref, ret, worker, bound, panicked, quit>>
    /\ UNCHANGED tui

\* manager.go:339-345: the next entry of the range, and the select on StopChan.
StopAllNext ==
    /\ Running
    /\ mu.op = "StopAll"
    /\ \E k \in DOMAIN forwards :
          IF fw[forwards[k]].StopChan = "open"
          THEN /\ mu' = [op |-> "StopAllClose", key |-> k, by |-> 0]
               /\ UNCHANGED forwards
          ELSE /\ forwards' = Delete(forwards, k)
               /\ UNCHANGED mu
    /\ UNCHANGED <<fw, pc, key, pref, ret, worker, bound, panicked, quit>>
    /\ UNCHANGED tui

\* manager.go:346-349: close(fw.StopChan), delete.
StopAllClose ==
    /\ Running
    /\ mu.op = "StopAllClose"
    /\ IF fw[forwards[mu.key]].StopChan = "open"
       THEN /\ fw' = [fw EXCEPT ![forwards[mu.key]] = CloseStopChan(fw[forwards[mu.key]])]
            /\ forwards' = Delete(forwards, mu.key)
            /\ mu' = [op |-> "StopAll", key |-> 1, by |-> 0]
            /\ UNCHANGED panicked
       ELSE /\ panicked' = TRUE
            /\ UNCHANGED <<fw, forwards, mu>>
    /\ UNCHANGED <<pc, key, pref, ret, worker, bound, quit>>
    /\ UNCHANGED tui

\* The range is over: StopAll returns and Update returns tea.Quit.
StopAllReturn ==
    /\ Running
    /\ mu.op = "StopAll"
    /\ DOMAIN forwards = {}
    /\ mu' = MuFree
    /\ quit' = TRUE
    /\ UNCHANGED <<forwards, fw, pc, key, pref, ret, worker, bound, panicked>>
    /\ UNCHANGED tui

Next ==
    \/ \E c \in Calls : StartCall(c)
    \/ \E c \in Calls : StartCheck(c)
    \/ \E c \in Calls : StartResolve(c)
    \/ \E c \in Calls : StartStore(c)
    \/ \E c \in Calls : StartReady(c)
    \/ \E c \in Calls : StartCtxDone(c)
    \/ \E c \in Calls : StartTimeout(c)
    \/ \E c \in Calls : StartCloseStop(c)
    \/ \E c \in Calls : WorkerNewFail(c)
    \/ \E c \in Calls : WorkerListen(c)
    \/ \E c \in Calls : WorkerForwardErr(c)
    \/ \E c \in Calls : WorkerStopped(c)
    \/ \E k \in Keys : StopForward(k)
    \/ \E c \in Calls : RetryStop(c)
    \/ StopForwardClose
    \/ StopAll
    \/ StopAllNext
    \/ StopAllClose
    \/ StopAllReturn

Spec == Init /\ [][Next]_vars

(***************************************************************************)
(* The queries (manager.go:353-426).  got is what the caller holds: val,   *)
(* the values as they were when the query returned, and ptr, the           *)
(* ForwardInfo objects the result points to, if it holds pointers.  All    *)
(* keys of the model are ports of one service, so the service prefix       *)
(* matches every key.                                                      *)
(***************************************************************************)

\* The callers whose starts run beside the queries.
QueryCalls == {1}

\* The fields of a ForwardInfo a copy carries by value; the channels of a
\* copy are those of the original.
ValueOf(info) ==
    [ForwardingState |-> info.ForwardingState,
     FailureReason |-> info.FailureReason,
     LocalPort |-> info.LocalPort]

\* copy := *fw, for every entry of the table
CopyAll == [k \in DOMAIN forwards |-> ValueOf(fw[forwards[k]])]

\* A query takes the read lock and changes nothing but what its caller holds.
QueryFrame ==
    /\ Running
    /\ Unlocked
    /\ UNCHANGED <<manager, table, viewMode, previousView, conflictPort, remotePort,
                   portInput, filterType, filterInput,
                   activeForwardsCount, cmd>>

\* manager.go:353-360
IsForwarding(k) ==
    /\ got' = [op |-> "IsForwarding", ptr |-> <<>>, val |-> (k :> [exists |-> Exists(k)])]
    /\ QueryFrame

\* manager.go:362-371
GetLocalPort(k) ==
    /\ got' = [op |-> "GetLocalPort", ptr |-> <<>>,
               val |-> (k :> [port |-> IF Exists(k) THEN fw[forwards[k]].LocalPort
                                       ELSE 0])]
    /\ QueryFrame

\* manager.go:374-385
IsServiceForwarding ==
    /\ got' = [op |-> "IsServiceForwarding", ptr |-> <<>>,
               val |-> (1 :> [exists |-> DOMAIN forwards # {}])]
    /\ QueryFrame

\* manager.go:388-400: forwards = append(forwards, *fw)
GetActiveForwards ==
    /\ got' = [op |-> "GetActiveForwards", ptr |-> <<>>, val |-> CopyAll]
    /\ QueryFrame

\* manager.go:403-414: copy := *fw; return &copy
GetForwardInfo(k) ==
    /\ got' = [op |-> "GetForwardInfo", ptr |-> <<>>,
               val |-> [x \in DOMAIN forwards \cap {k} |-> ValueOf(fw[forwards[x]])]]
    /\ QueryFrame

\* manager.go:417-426: result[k] = v, the pointer the table holds
GetAllForwards ==
    /\ got' = [op |-> "GetAllForwards", ptr |-> forwards, val |-> CopyAll]
    /\ QueryFrame

\* What the caller reads now through the result it holds.
Observed(result) ==
    [k \in DOMAIN result.val |->
        IF k \in DOMAIN result.ptr THEN ValueOf(fw[result.ptr[k]]) ELSE result.val[k]]

NextQuery ==
    \/ \E c \in QueryCalls : StartCall(c)
    \/ \E c \in QueryCalls : StartCheck(c)
    \/ \E c \in QueryCalls : StartResolve(c)
    \/ \E c \in QueryCalls : StartStore(c)
    \/ \E c \in QueryCalls : StartReady(c)
    \/ \E c \in QueryCalls : StartCtxDone(c)
    \/ \E c \in QueryCalls : StartTimeout(c)
    \/ \E c \in QueryCalls : StartCloseStop(c)
    \/ \E c \in QueryCalls : WorkerNewFail(c)
    \/ \E c \in QueryCalls : WorkerListen(c)
    \/ \E c \in QueryCalls : WorkerForwardErr(c)
    \/ \E c \in QueryCalls : WorkerStopped(c)
    \/ \E k \in Keys : StopForward(k)
    \/ \E c \in QueryCalls : RetryStop(c)
    \/ StopForwardClose
    \/ StopAll
    \/ StopAllNext
    \/ StopAllClose
    \/ StopAllReturn
    \/ \E k \in Keys : IsForwarding(k)
    \/ \E k \in Keys : GetLocalPort(k)
    \/ IsServiceForwarding
    \/ GetActiveForwards
    \/ \E k \in Keys : GetForwardInfo(k)
    \/ GetAllForwards

SpecQuery == Init /\ [][NextQuery]_vars

(***************************************************************************)
(* The table on its own: any sequence of its methods, as the key and       *)
(* message handlers of Update call them.                                   *)
(***************************************************************************)

\* The table heights a window size gives: never under 5 (part_003:250-257).
Heights == 5..MaxHeight

\* A method of m.table touches the table only.
TableFrame ==
    UNCHANGED <<manager, viewMode, previousView, conflictPort, remotePort, portInput, cmd, got, filterType, filterInput,
                   activeForwardsCount>>

\* servicesLoadedMsg (part_003:594)
TableSetServices ==
    /\ \E services \in Snapshots : table' = SetServices(table, services)
    /\ TableFrame

\* applyFilters (part_003:1218)
TableApplyFilters ==
    /\ \E filters \in FilterMaps : table' = ApplyFilters(table, filters)
    /\ TableFrame

\* The sort keys (part_003:356-396) and servicesLoadedMsg (part_003:595)
TableSortBy ==
    /\ \E field \in SortFields, ascending \in BOOLEAN :
          table' \in SortBy(table, field, ascending)
    /\ TableFrame

\* Home and End (part_003:293-302)
TableSetSelected ==
    /\ \E index \in {0, Len(getActiveRows(table)) - 1} :
          /\ index >= 0
          /\ table' = SetSelected(table, index)
    /\ TableFrame

\* Up (part_003:275-276)
TableMoveUp ==
    /\ table' = MoveUp(table)
    /\ TableFrame

\* Down (part_003:278-279)
TableMoveDown ==
    /\ table' = MoveDown(table)
    /\ TableFrame

\* tea.WindowSizeMsg (part_003:257)
TableSetSize ==
    /\ \E height \in Heights : table' = SetSize(table, height)
    /\ TableFrame

NextTable ==
    \/ TableSetServices
    \/ TableApplyFilters
    \/ TableSortBy
    \/ TableSetSelected
    \/ TableMoveUp
    \/ TableMoveDown
    \/ TableSetSize

SpecTable == Init /\ [][NextTable]_vars

(***************************************************************************)
(* The UI loop (Model.Update) and its commands (commands.go).  The cluster *)
(* holds one service whose ports are the keys of the manager; the local    *)
(* port a start asks for first is the service port.  Command c is the c-th *)
(* command Update returned; it runs off the loop, and what it returns is   *)
(* handed to Update as a message.  The selection stays on the first row,   *)
(* so a command always finds the row its key was pressed on, and the loop  *)
(* is followed until a quit key.                                           *)
(***************************************************************************)

\* The row of the manager's key k, and the key of a service port.
KeyRow(k) == [Namespace |-> 1, Name |-> 1, Port |-> k]

\* What the user can have typed when Enter is pressed: a port inside
\* 1024-65535, or 0 for an input that does not parse or is outside it.
InputPorts == {0} \cup Keys

\* A loadServices that reports only the sessions that are active.
loadServices_ActiveOnly ==
    [k \in Keys |->
        [Namespace |-> 1, Name |-> 1, Port |-> k,
         ForwardingState |-> IF k \in DOMAIN forwards
                                /\ fw[forwards[k]].ForwardingState = "active"
                             THEN "active" ELSE "inactive",
         ForwardingPort |-> IF k \in DOMAIN forwards
                               /\ fw[forwards[k]].ForwardingState = "active"
                            THEN fw[forwards[k]].LocalPort ELSE 0]]

\* loadServices: the snapshot of the service with the manager's state of
\* every port (commands.go:63-85).
loadServices ==
    [k \in Keys |->
        [Namespace |-> KeyRow(k).Namespace, Name |-> KeyRow(k).Name, Port |-> k,
         ForwardingState |-> IF Exists(k) THEN fw[forwards[k]].ForwardingState
                             ELSE "inactive",
         ForwardingPort |-> IF Exists(k) THEN fw[forwards[k]].LocalPort ELSE 0]]

\* Update leaves the manager alone.
UpdateFrame == UNCHANGED manager

\* part_003:597-603: the rows whose state is active.
ActiveCount(rows) ==
    Cardinality({i \in 1..Len(rows) : rows[i].ForwardingState = "active"})

\* servicesLoadedMsg (part_003:593-606), with the loadServices that made it.
UpdateServicesLoaded ==
    /\ Running
    /\ Unlocked
    /\ Len(table.rows) = 0
    /\ table' \in SortBy(SetServices(table, loadServices), "namespace", TRUE)
    /\ activeForwardsCount' = ActiveCount(table'.rows)
    /\ UNCHANGED <<viewMode, previousView, conflictPort, remotePort, portInput, cmd, got,
                   filterType, filterInput>>
    /\ UpdateFrame

\* The next command Update can return.
IsNextCommand(c) ==
    /\ cmd[c].name = "none"
    /\ IF c = 1 THEN TRUE ELSE cmd[c - 1].name # "none"

\* The selected row with the state Update or a command writes to it.
WriteSelectedRow(t, state, port) ==
    IF GetSelectedRow(t) = {} THEN t
    ELSE SetActiveRows(t, [getActiveRows(t) EXCEPT
                              ![t.selectedRow + 1].ForwardingState = state,
                              ![t.selectedRow + 1].ForwardingPort = port])

\* The Forward key in the list view (part_003:313-333).
UpdateKeyForward(c) ==
    /\ Running
    /\ ~quit
    /\ viewMode = "listView"
    /\ IsNextCommand(c)
    /\ \E row \in GetSelectedRow(table) :
          cmd' = [cmd EXCEPT ![c] =
                    [NoCommand EXCEPT
                        !.name = "startPortForward",
                        !.port = row.Port,
                        !.pending = IF row.ForwardingState = "inactive"
                                    THEN "queued" ELSE "none"]]
    /\ UNCHANGED <<table, viewMode, previousView, conflictPort, remotePort, portInput, got, filterType, filterInput,
                   activeForwardsCount>>
    /\ UpdateFrame

\* portForwardPendingMsg (part_003:612-633)
UpdatePortForwardPending(c) ==
    /\ Running
    /\ cmd[c].pending = "queued"
    /\ cmd' = [cmd EXCEPT ![c].pending = "delivered"]
    /\ table' = IF \E row \in GetSelectedRow(table) : row.Port = cmd[c].port
                THEN WriteSelectedRow(table, "pending",
                                      getActiveRows(table)[table.selectedRow + 1].ForwardingPort)
                ELSE table
    /\ UNCHANGED <<viewMode, previousView, conflictPort, remotePort, portInput, got,
                   filterType, filterInput, activeForwardsCount>>
    /\ UpdateFrame

\* startPortForward on an active row (commands.go:119-121), and on a failed
\* row (commands.go:123-125): StopForward.
startPortForwardStop(c) ==
    /\ Running
    /\ cmd[c].name = "startPortForward"
    /\ cmd[c].branch = "none"
    /\ \E row \in GetSelectedRow(table) :
          /\ row.ForwardingState \in {"active", "failed"}
          /\ cmd' = [cmd EXCEPT ![c].branch =
                       IF row.ForwardingState = "active" THEN "toggle" ELSE "retry"]
          /\ key' = [key EXCEPT ![c] = row.Port]
          /\ pref' = [pref EXCEPT ![c] = row.Port]
          /\ StopLookup(row.Port, c)
    /\ UNCHANGED <<fw, ret, worker, bound, panicked, quit>>
    /\ UNCHANGED <<table, viewMode, previousView, conflictPort, remotePort, portInput, got, filterType, filterInput,
                   activeForwardsCount>>

\* commands.go:122: the StopForward of an active row has returned.
startPortForwardStopped(c) ==
    /\ Running
    /\ cmd[c].branch = "toggle"
    /\ cmd[c].msg = "none"
    /\ pc[c] = "check"
    /\ pc' = [pc EXCEPT ![c] = "done"]
    /\ cmd' = [cmd EXCEPT ![c].msg = "portForwardStoppedMsg"]
    /\ UNCHANGED <<forwards, fw, mu, key, pref, ret, worker, bound, panicked, quit>>
    /\ UNCHANGED <<table, viewMode, previousView, conflictPort, remotePort, portInput, got, filterType, filterInput,
                   activeForwardsCount>>

\* commands.go:130: the start that follows the StopForward of a failed row.
startPortForwardRetry(c) ==
    /\ cmd[c].branch = "retry"
    /\ StartCheck(c)

\* startPortForward on a row that is neither active nor failed
\* (commands.go:144-149): the start on the service port.
startPortForwardStart(c) ==
    /\ Running
    /\ cmd[c].name = "startPortForward"
    /\ cmd[c].branch = "none"
    /\ \E row \in GetSelectedRow(table) :
          /\ row.ForwardingState \notin {"active", "failed"}
          /\ cmd' = [cmd EXCEPT ![c].branch = "start"]
          /\ key' = [key EXCEPT ![c] = row.Port]
          /\ pref' = [pref EXCEPT ![c] = row.Port]
          /\ CheckExists(c, row.Port)
    /\ UNCHANGED <<forwards, mu, worker, bound, panicked, quit>>
    /\ UNCHANGED <<table, viewMode, previousView, conflictPort, remotePort, portInput, got, filterType, filterInput,
                   activeForwardsCount>>

\* strings.Contains(err.Error(), "already in use")
IsAlreadyInUse(err) == err = "port is already in use"

\* commands.go:131-143 and 150-162: the message of a start that returned.
startPortForwardReturn(c) ==
    /\ Running
    /\ cmd[c].branch \in {"retry", "start"}
    /\ cmd[c].msg = "none"
    /\ pc[c] = "done"
    /\ cmd' = [cmd EXCEPT ![c].msg =
                 IF ret[c].err = "nil" THEN "portForwardStartedMsg"
                 ELSE IF IsAlreadyInUse(ret[c].err) THEN "portConflictMsg"
                 ELSE "portForwardFailedMsg"]
    /\ UNCHANGED <<manager, table, viewMode, previousView, conflictPort, remotePort,
                   portInput, got, filterType, filterInput,
                   activeForwardsCount>>

\* Digits and Backspace in the port-input view (part_003:456-469).
UpdateKeyPortDigits ==
    /\ Running
    /\ ~quit
    /\ viewMode = "portInputView"
    /\ \E p \in InputPorts : portInput' = p
    /\ UNCHANGED <<table, viewMode, previousView, conflictPort, remotePort, cmd, got, filterType, filterInput,
                   activeForwardsCount>>
    /\ UpdateFrame

\* Esc or q in the port-input view (part_003:450-454).
UpdateKeyPortCancel ==
    /\ Running
    /\ ~quit
    /\ viewMode = "portInputView"
    /\ viewMode' = "listView"
    /\ portInput' = 0
    /\ UNCHANGED <<table, previousView, conflictPort, remotePort, cmd, got, filterType, filterInput,
                   activeForwardsCount>>
    /\ UpdateFrame

\* Enter in the port-input view (part_003:446-448).
UpdateKeyPortEnter(c) ==
    /\ Running
    /\ ~quit
    /\ viewMode = "portInputView"
    /\ IsNextCommand(c)
    /\ cmd' = [cmd EXCEPT ![c] =
                 [NoCommand EXCEPT !.name = "startPortForwardWithUserPort"]]
    /\ UNCHANGED <<table, viewMode, previousView, conflictPort, remotePort, portInput, got, filterType, filterInput,
                   activeForwardsCount>>
    /\ UpdateFrame

\* startPortForwardWithUserPort gives up before the manager is called
\* (commands.go:169-183): no service selected, or no port in range typed.
startPortForwardWithUserPortInvalid(c) ==
    /\ Running
    /\ cmd[c].name = "startPortForwardWithUserPort"
    /\ cmd[c].branch = "none"
    /\ GetSelectedRow(table) = {} \/ portInput = 0
    /\ cmd' = [cmd EXCEPT ![c].branch = "invalid", ![c].msg = "errorMsg"]
    /\ UNCHANGED <<manager, table, viewMode, previousView, conflictPort, remotePort,
                   portInput, got, filterType, filterInput,
                   activeForwardsCount>>

\* commands.go:185-189: the start of (service, m.remotePort) on the port typed.
startPortForwardWithUserPortStart(c) ==
    /\ Running
    /\ cmd[c].name = "startPortForwardWithUserPort"
    /\ cmd[c].branch = "none"
    /\ GetSelectedRow(table) # {}
    /\ portInput # 0
    /\ remotePort \in Keys
    /\ cmd' = [cmd EXCEPT ![c].branch = "user", ![c].port = portInput]
    /\ key' = [key EXCEPT ![c] = remotePort]
    /\ pref' = [pref EXCEPT ![c] = portInput]
    /\ CheckExists(c, remotePort)
    /\ UNCHANGED <<forwards, mu, worker, bound, panicked, quit>>
    /\ UNCHANGED <<table, viewMode, previousView, conflictPort, remotePort, portInput, got, filterType, filterInput,
                   activeForwardsCount>>

\* commands.go:190-201: the message of the start on the user's port; on
\* success the command itself clears the input and leaves the view.
startPortForwardWithUserPortReturn(c) ==
    /\ Running
    /\ cmd[c].branch = "user"
    /\ cmd[c].msg = "none"
    /\ pc[c] = "done"
    /\ IF ret[c].err = "nil"
       THEN /\ cmd' = [cmd EXCEPT ![c].msg = "portForwardStartedMsg"]
            /\ portInput' = 0
            /\ viewMode' = "listView"
       ELSE /\ cmd' = [cmd EXCEPT ![c].msg = "errorMsg"]
            /\ UNCHANGED <<portInput, viewMode>>
    /\ UNCHANGED <<manager, table, previousView, conflictPort, remotePort, got, filterType, filterInput,
                   activeForwardsCount>>

\* The message of command c is handed to Update.
Delivers(c, msg) ==
    /\ Running
    /\ cmd[c].msg = msg
    /\ cmd' = [cmd EXCEPT ![c].msg = "delivered"]
    /\ UNCHANGED <<got, filterType, filterInput>>
    /\ UpdateFrame

\* portForwardFailedMsg (part_003:635-661)
UpdatePortForwardFailed(c) ==
    /\ Delivers(c, "portForwardFailedMsg")
    /\ table' = IF \E row \in GetSelectedRow(table) : row.Port = key[c]
                THEN WriteSelectedRow(table, "failed", 0)
                ELSE table
    /\ UNCHANGED <<viewMode, previousView, conflictPort, remotePort, portInput,
                   activeForwardsCount>>

\* portForwardStartedMsg (part_003:667-686)
UpdatePortForwardStarted(c) ==
    /\ Delivers(c, "portForwardStartedMsg")
    /\ table' = WriteSelectedRow(table, "active", ret[c].port)
    /\ activeForwardsCount' = IF GetSelectedRow(table) = {} THEN activeForwardsCount
                              ELSE activeForwardsCount + 1
    /\ UNCHANGED <<viewMode, previousView, conflictPort, remotePort, portInput>>

\* portForwardStoppedMsg (part_003:688-711)
UpdatePortForwardStopped(c) ==
    /\ Delivers(c, "portForwardStoppedMsg")
    /\ table' = WriteSelectedRow(table, "inactive", 0)
    /\ activeForwardsCount' = IF GetSelectedRow(table) = {} THEN activeForwardsCount
                              ELSE activeForwardsCount - 1
    /\ UNCHANGED <<viewMode, previousView, conflictPort, remotePort, portInput>>

\* A conflict message that leaves the view as it is.
UpdatePortConflict_KeepsView(c) ==
    /\ Delivers(c, "portConflictMsg")
    /\ UNCHANGED <<table, viewMode, previousView, conflictPort, remotePort, portInput,
                   activeForwardsCount>>

\* portConflictMsg (part_003:713-719)
UpdatePortConflict(c) ==
    /\ Delivers(c, "portConflictMsg")
    /\ viewMode' = "portInputView"
    /\ conflictPort' = pref[c]
    /\ remotePort' = key[c]
    /\ portInput' = 0
    /\ UNCHANGED <<table, previousView, activeForwardsCount>>

\* errorMsg (part_003:727-733)
UpdateError(c) ==
    /\ Delivers(c, "errorMsg")
    /\ previousView' = viewMode
    /\ viewMode' = "errorModalView"
    /\ UNCHANGED <<table, conflictPort, remotePort, portInput, activeForwardsCount>>

\* Enter, Esc, Space or q in the error modal (part_003:474-481).
UpdateKeyDismissError ==
    /\ Running
    /\ ~quit
    /\ viewMode = "errorModalView"
    /\ viewMode' = previousView
    /\ UNCHANGED <<table, previousView, conflictPort, remotePort, portInput, cmd, got, filterType, filterInput,
                   activeForwardsCount>>
    /\ UpdateFrame

\* The discovery failure the cluster of the UI runs shows: no pods.
StartResolveUI(c) ==
    /\ StartResolve(c)
    /\ ret'[c].err \notin DiscoveryErrors \ {"no pods found"}

NextUI ==
    \/ UpdateServicesLoaded
    \/ \E c \in Calls : UpdateKeyForward(c)
    \/ \E c \in Calls : UpdatePortForwardPending(c)
    \/ \E c \in Calls : startPortForwardStop(c)
    \/ \E c \in Calls : startPortForwardStopped(c)
    \/ \E c \in Calls : startPortForwardRetry(c)
    \/ \E c \in Calls : startPortForwardStart(c)
    \/ \E c \in Calls : startPortForwardReturn(c)
    \/ UpdateKeyPortDigits
    \/ UpdateKeyPortCancel
    \/ \E c \in Calls : UpdateKeyPortEnter(c)
    \/ \E c \in Calls : startPortForwardWithUserPortInvalid(c)
    \/ \E c \in Calls : startPortForwardWithUserPortStart(c)
    \/ \E c \in Calls : startPortForwardWithUserPortReturn(c)
    \/ \E c \in Calls : UpdatePortForwardFailed(c)
    \/ \E c \in Calls : UpdatePortForwardStarted(c)
    \/ \E c \in Calls : UpdatePortForwardStopped(c)
    \/ \E c \in Calls : UpdatePortConflict(c)
    \/ \E c \in Calls : UpdateError(c)
    \/ UpdateKeyDismissError
    \/ \E c \in Calls : StartResolveUI(c)
    \/ \E c \in Calls : StartStore(c)
    \/ \E c \in Calls : StartReady(c)
    \/ \E c \in Calls : StartTimeout(c)
    \/ \E c \in Calls : StartCloseStop(c)
    \/ \E c \in Calls : WorkerNewFail(c)
    \/ \E c \in Calls : WorkerListen(c)
    \/ \E c \in Calls : WorkerForwardErr(c)
    \/ \E c \in Calls : WorkerStopped(c)
    \/ StopForwardClose

SpecUI == Init /\ [][NextUI]_vars

(***************************************************************************)
(* The filter view of Update (part_003:403-409 and 485-589).  The map      *)
(* m.activeFilters is the map the table holds: every handler that changes  *)
(* it hands it to ApplyFilters before it returns.                          *)
(***************************************************************************)

\* The longest filter input typed.
MaxInput == 1

\* The runes of a key message: a digit of a port, a capital of a type or protocol.
FilterRunes == {<<"2">>, <<"P">>}

\* filterTypes (part_003:532 and 548); "" is shown as all (part_003:1279).
filterTypes == <<"", "status", "type", "name", "protocol">>

IndexOfFilterType == CHOOSE i \in 1..Len(filterTypes) : filterTypes[i] = filterType

\* A key in the filter view touches the filter fields, the view and the table.
FilterFrame ==
    /\ Running
    /\ ~quit
    /\ UNCHANGED <<manager, previousView, conflictPort, remotePort, portInput, cmd, got,
                   activeForwardsCount>>

\* The Filter key in the list view (part_003:403-409).
UpdateKeyFilter ==
    /\ viewMode = "listView"
    /\ viewMode' = "filterView"
    /\ filterInput' = <<>>
    /\ filterType' = ""
    /\ UNCHANGED table
    /\ FilterFrame

\* Enter (part_003:487-495)
UpdateFilterKeyEnter ==
    /\ viewMode = "filterView"
    /\ table' = ApplyFilters(table,
                    IF filterType # "" /\ filterInput # <<>>
                    THEN [x \in DOMAIN table.filters \cup {filterType} |->
                             IF x = filterType THEN filterInput ELSE table.filters[x]]
                    ELSE table.filters)
    /\ viewMode' = "listView"
    /\ UNCHANGED <<filterType, filterInput>>
    /\ FilterFrame

\* Esc (part_003:497-503)
UpdateFilterKeyEsc ==
    /\ viewMode = "filterView"
    /\ viewMode' = "listView"
    /\ filterInput' = <<>>
    /\ filterType' = ""
    /\ UNCHANGED table
    /\ FilterFrame

\* Right (part_003:530-545)
UpdateFilterKeyRight ==
    /\ viewMode = "filterView"
    /\ filterType' = filterTypes[(IndexOfFilterType % Len(filterTypes)) + 1]
    /\ filterInput' = <<>>
    /\ UNCHANGED <<table, viewMode>>
    /\ FilterFrame

\* Left (part_003:546-565)
UpdateFilterKeyLeft ==
    /\ viewMode = "filterView"
    /\ filterType' = filterTypes[IF IndexOfFilterType = 1 THEN Len(filterTypes)
                                  ELSE IndexOfFilterType - 1]
    /\ filterInput' = <<>>
    /\ UNCHANGED <<table, viewMode>>
    /\ FilterFrame

\* C (part_003:566-571)
UpdateFilterKeyClear ==
    /\ viewMode = "filterView"
    /\ table' = ApplyFilters(table, <<>>)
    /\ viewMode' = "listView"
    /\ UNCHANGED <<filterType, filterInput>>
    /\ FilterFrame

\* Backspace (part_003:573-579)
UpdateFilterKeyBackspace ==
    /\ viewMode = "filterView"
    /\ filterInput' = IF Len(filterInput) > 0
                      THEN SubSeq(filterInput, 1, Len(filterInput) - 1)
                      ELSE filterInput
    /\ UNCHANGED <<table, viewMode, filterType>>
    /\ FilterFrame

\* Any other runes (part_003:581-586)
UpdateFilterKeyRunes ==
    /\ viewMode = "filterView"
    /\ \E runes \in FilterRunes :
          /\ Len(filterInput) + Len(runes) <= MaxInput
          /\ filterInput' = filterInput \o runes
    /\ UNCHANGED <<table, viewMode, filterType>>
    /\ FilterFrame

NextFilter ==
    \/ UpdateServicesLoaded
    \/ UpdateKeyFilter
    \/ UpdateFilterKeyEnter
    \/ UpdateFilterKeyEsc
    \/ UpdateFilterKeyRight
    \/ UpdateFilterKeyLeft
    \/ UpdateFilterKeyClear
    \/ UpdateFilterKeyBackspace
    \/ UpdateFilterKeyRunes

SpecFilter == Init /\ [][NextFilter]_vars

(***************************************************************************)
(* The Refresh key and the navigation keys of the list view beside the     *)
(* commands of the UI loop.  loadServices runs off the loop like every     *)
(* other command: it reads the manager when it runs, and its message is    *)
(* applied when the runtime hands it to Update.                            *)
(***************************************************************************)

\* The Refresh key in the list view (part_003:344-347).
UpdateKeyRefresh(c) ==
    /\ Running
    /\ ~quit
    /\ viewMode = "listView"
    /\ Len(table.rows) > 0
    /\ IsNextCommand(c)
    /\ cmd' = [cmd EXCEPT ![c] = [NoCommand EXCEPT !.name = "loadServices"]]
    /\ UNCHANGED <<table, viewMode, previousView, conflictPort, remotePort, portInput, got,
                   filterType, filterInput, activeForwardsCount>>
    /\ UpdateFrame

\* loadServices: GetServices succeeds, and every port gets the manager's
\* state (commands.go:58, 63-99).
loadServicesReturn(c) ==
    /\ Running
    /\ Unlocked
    /\ cmd[c].name = "loadServices"
    /\ cmd[c].msg = "none"
    /\ cmd' = [cmd EXCEPT ![c].msg = "servicesLoadedMsg", ![c].services = loadServices]
    /\ UNCHANGED <<manager, table, viewMode, previousView, conflictPort, remotePort,
                   portInput, got, filterType, filterInput, activeForwardsCount>>

\* loadServices: GetServices fails (commands.go:58-61).
loadServicesError(c) ==
    /\ Running
    /\ cmd[c].name = "loadServices"
    /\ cmd[c].msg = "none"
    /\ cmd' = [cmd EXCEPT ![c].msg = "errorMsg"]
    /\ UNCHANGED <<manager, table, viewMode, previousView, conflictPort, remotePort,
                   portInput, got, filterType, filterInput, activeForwardsCount>>

\* servicesLoadedMsg of a refresh (part_003:593-606)
UpdateServicesReloaded(c) ==
    /\ Delivers(c, "servicesLoadedMsg")
    /\ table' \in SortBy(SetServices(table, cmd[c].services), "namespace", TRUE)
    /\ activeForwardsCount' = ActiveCount(table'.rows)
    /\ UNCHANGED <<viewMode, previousView, conflictPort, remotePort, portInput>>

\* Down (part_003:278-279)
UpdateKeyDown ==
    /\ Running
    /\ ~quit
    /\ viewMode = "listView"
    /\ table' = MoveDown(table)
    /\ table' # table
    /\ UNCHANGED <<viewMode, previousView, conflictPort, remotePort, portInput, cmd, got,
                   filterType, filterInput, activeForwardsCount>>
    /\ UpdateFrame

\* Up (part_003:275-276)
UpdateKeyUp ==
    /\ Running
    /\ ~quit
    /\ viewMode = "listView"
    /\ table' = MoveUp(table)
    /\ table' # table
    /\ UNCHANGED <<viewMode, previousView, conflictPort, remotePort, portInput, cmd, got,
                   filterType, filterInput, activeForwardsCount>>
    /\ UpdateFrame

NextRefresh ==
    \/ UpdateServicesLoaded
    \/ \E c \in Calls : UpdateKeyForward(c)
    \/ \E c \in Calls : UpdatePortForwardPending(c)
    \/ \E c \in Calls : startPortForwardStop(c)
    \/ \E c \in Calls : startPortForwardStopped(c)
    \/ \E c \in Calls : startPortForwardRetry(c)
    \/ \E c \in Calls : startPortForwardStart(c)
    \/ \E c \in Calls : startPortForwardReturn(c)
    \/ \E c \in Calls : UpdatePortForwardFailed(c)
    \/ \E c \in Calls : UpdatePortForwardStarted(c)
    \/ \E c \in Calls : UpdatePortForwardStopped(c)
    \/ \E c \in Calls : UpdateError(c)
    \/ UpdateKeyDismissError
    \/ \E c \in Calls : UpdateKeyRefresh(c)
    \/ \E c \in Calls : loadServicesReturn(c)
    \/ \E c \in Calls : loadServicesError(c)
    \/ \E c \in Calls : UpdateServicesReloaded(c)
    \/ \E c \in Calls : StartResolveUI(c)
    \/ \E c \in Calls : StartStore(c)
    \/ \E c \in Calls : StartReady(c)
    \/ \E c \in Calls : StartTimeout(c)
    \/ \E c \in Calls : StartCloseStop(c)
    \/ \E c \in Calls : WorkerNewFail(c)
    \/ \E c \in Calls : WorkerListen(c)
    \/ \E c \in Calls : WorkerForwardErr(c)
    \/ \E c \in Calls : WorkerStopped(c)
    \/ StopForwardClose

SpecRefresh == Init /\ [][NextRefresh]_vars

\* The start of a command finds a pod and a free port and launches the tunnel.
StartLaunchUI(c) ==
    /\ StartResolve(c)
    /\ pc'[c] = "store"

\* The list view with its navigation keys, and starts and stops that succeed.
NextSelect ==
    \/ UpdateServicesLoaded
    \/ UpdateKeyDown
    \/ UpdateKeyUp
    \/ \E c \in Calls : UpdateKeyForward(c)
    \/ \E c \in Calls : UpdatePortForwardPending(c)
    \/ \E c \in Calls : startPortForwardStop(c)
    \/ \E c \in Calls : startPortForwardStopped(c)
    \/ \E c \in Calls : startPortForwardStart(c)
    \/ \E c \in Calls : startPortForwardReturn(c)
    \/ \E c \in Calls : UpdatePortForwardStarted(c)
    \/ \E c \in Calls : UpdatePortForwardStopped(c)
    \/ \E c \in Calls : StartStore(c)
    \/ \E c \in Calls : StartReady(c)
    \/ \E c \in Calls : WorkerListen(c)
    \/ \E c \in Calls : WorkerStopped(c)
    \/ \E c \in Calls : StartLaunchUI(c)
    \/ StopForwardClose

SpecSelect == Init /\ [][NextSelect]_vars

\* The list view with the filter view, and the start of the first command.
NextFilterWrite ==
    \/ UpdateServicesLoaded
    \/ UpdateKeyFilter
    \/ UpdateFilterKeyRight
    \/ UpdateFilterKeyRunes
    \/ UpdateFilterKeyEnter
    \/ UpdateFilterKeyClear
    \/ \E c \in QueryCalls : UpdateKeyForward(c)
    \/ \E c \in QueryCalls : UpdatePortForwardPending(c)
    \/ \E c \in QueryCalls : startPortForwardStart(c)
    \/ \E c \in QueryCalls : startPortForwardReturn(c)
    \/ \E c \in QueryCalls : UpdatePortForwardStarted(c)
    \/ \E c \in QueryCalls : StartLaunchUI(c)
    \/ \E c \in QueryCalls : StartStore(c)
    \/ \E c \in QueryCalls : StartReady(c)
    \/ \E c \in QueryCalls : WorkerListen(c)

SpecFilterWrite == Init /\ [][NextFilterWrite]_vars

(***************************************************************************)
(* Claims                                                                  *)
(***************************************************************************)

\* The step in which call c makes its existence check (manager.go:54-59).
CheckStep(c) == pc[c] \in {"idle", "check"} /\ pc'[c] \in {"resolve", "done"}

\* The step in which call c returns.
ReturnStep(c) == ret[c].err = "none" /\ ret'[c].err # "none"

\* Call d is between its existence check and its return.
InProgress(d) == pc[d] \in {"resolve", "store", "wait", "cancelled", "timedout"}

\* The table holds the session of call d.
InTable(d) == pc[d] # "idle" /\ key[d] \in DOMAIN forwards /\ forwards[key[d]] = d

\* C1: a call that makes its existence check for a key while an earlier call
\* for the same key is in progress, or while that call's session is in the
\* table, returns the already-active error and never gets a local port.
C1_SecondCallRejected ==
    [][\A c \in Calls :
          (/\ CheckStep(c)
           /\ \E d \in Calls \ {c} :
                 /\ pc[d] # "idle"
                 /\ key[d] = key'[c]
                 /\ InProgress(d) \/ InTable(d))
          => /\ pc'[c] = "done"
             /\ ret'[c].err = "already active"
             /\ fw'[c].LocalPort = 0]_vars

\* A session start created that is still pending or active, with its local
\* port, its tunnel worker running and no cancel signal sent.
Live(c) ==
    /\ fw[c].ForwardingState \in {"pending", "active"}
    /\ fw[c].LocalPort # 0
    /\ worker[c] \in {"new", "listening"}
    /\ fw[c].StopChan = "open"

\* C2: no two live sessions for one key.
C2_OneSessionPerKey ==
    \A c, d \in Calls : (c # d /\ Live(c) /\ Live(d)) => key[c] # key[d]

\* C3: when a call returns a local port, the table holds a session for its
\* key that is active and has that local port.
C3_PortOnlyWhenActive ==
    [][\A c \in Calls :
          (ReturnStep(c) /\ ret'[c].err = "nil")
          => /\ key[c] \in DOMAIN forwards'
             /\ fw'[forwards'[key[c]]].ForwardingState = "active"
             /\ fw'[forwards'[key[c]]].LocalPort = ret'[c].port]_vars

\* The tunnel of call c failed before it was ready: the forwarder could not
\* be created, or ForwardPorts returned an error with readyChan still open.
FailedBeforeReady(c) ==
    \/ worker[c] = "createFailed"
    \/ worker[c] = "forwardFailed" /\ fw[c].ReadyChan = "open"

\* C4: a call whose tunnel failed before readiness returns an error, and its
\* session is failed with a reason.
C4_ProviderFailureIsError ==
    [][\A c \in Calls :
          (ReturnStep(c) /\ FailedBeforeReady(c))
          => /\ ret'[c].err # "nil"
             /\ ret'[c].port = 0
             /\ fw'[c].ForwardingState = "failed"
             /\ fw'[c].FailureReason # ""]_vars

RetryStopReturns(c) == pc[c] \in {"idle", "stop"} /\ pc'[c] = "check"

C6_AlreadyActiveNoSideEffects ==
    [][\A c \in Calls :
          (CheckStep(c) /\ key'[c] \in DOMAIN forwards)
          => /\ pc'[c] = "done"
             /\ ret'[c] = [err |-> "already active", port |-> 0]
             /\ UNCHANGED <<forwards, fw, worker, bound, mu>>]_vars

\* A call was rejected while the table holds a session under its key.
C6_Witness ==
    \E c \in Calls :
        /\ pc[c] = "done"
        /\ ret[c].err = "already active"
        /\ fw[c] = ZeroForwardInfo
        /\ key[c] \in DOMAIN forwards
        /\ fw[forwards[key[c]]].ForwardingState \in {"pending", "active"}

\* C7: a launched tunnel worker whose session has not been stopped has its
\* session in the table.
C7_RegisteredBeforeTunnel ==
    \A c \in Calls :
        (worker[c] \in {"new", "listening"} /\ fw[c].StopChan = "open")
        => InTable(c)

\* C8: a call that gave up on the timeout or on the context ends with its
\* session failed, the cancel signal sent and an error returned.
C8_GiveUpReturnsError ==
    [][\A c \in Calls :
          /\ (pc[c] = "wait" /\ pc'[c] \in {"cancelled", "timedout"}) =>
                /\ fw'[c].ForwardingState = "failed"
                /\ fw'[c].FailureReason \in
                      {"Context cancelled",
                       "Timeout waiting for port forward to be ready"}
          /\ (pc[c] \in {"cancelled", "timedout"} /\ pc'[c] # pc[c]) =>
                /\ pc'[c] = "done"
                /\ ret'[c].err \in
                      {"context cancelled",
                       "timeout waiting for port forward to be ready"}
                /\ fw'[c].StopChan = "closed"
                /\ fw'[c].ForwardingState = "failed"]_vars

\* The other entries of the table stay as they are.
OthersUnchanged(k) ==
    \A j \in DOMAIN forwards \ {k} :
        j \in DOMAIN forwards' /\ forwards'[j] = forwards[j] /\ fw'[forwards[j]] = fw[forwards[j]]

\* C9: a StopForward that finds the key sends the cancel signal and removes
\* the entry, and leaves the other entries alone; one that does not find it
\* changes nothing.
C9_StopForwardIdempotent ==
    [][/\ \A k \in Keys :
             (StopForward(k) \/ \E c \in Calls : RetryStop(c) /\ key'[c] = k)
             => /\ OthersUnchanged(k)
                /\ k \notin DOMAIN forwards => UNCHANGED <<forwards, fw>>
                /\ (k \in DOMAIN forwards /\ mu' = mu) =>
                      /\ k \notin DOMAIN forwards'
                      /\ fw[forwards[k]].StopChan # "open"
       /\ StopForwardClose
             => /\ OthersUnchanged(mu.key)
                /\ mu.key \notin DOMAIN forwards'
                /\ fw'[forwards[mu.key]].StopChan = "closed"
                /\ ~panicked']_vars

\* C10: StopAll removes an entry only with its cancel signal sent, adds and
\* replaces none, and returns, and the program quits, with the table empty.
C10_StopAllEmptiesTable ==
    [][/\ mu.op \in {"StopAll", "StopAllClose"} =>
             /\ DOMAIN forwards' \subseteq DOMAIN forwards
             /\ \A k \in DOMAIN forwards :
                   IF k \in DOMAIN forwards'
                   THEN forwards'[k] = forwards[k]
                   ELSE fw'[forwards[k]].StopChan # "open"
       /\ (~quit /\ quit') =>
             /\ mu.op = "StopAll"
             /\ DOMAIN forwards' = {}]_vars

\* StopAll has returned with the table empty while a start whose session had
\* its cancel signal sent is still waiting for readiness.
C10_Witness ==
    /\ quit
    /\ DOMAIN forwards = {}
    /\ \E c \in Calls : pc[c] = "wait" /\ fw[c].StopChan = "closed"

\* The errors of a start that failed after passing the existence check.
StartFailures ==
    DiscoveryErrors \cup
    {"port is already in use", "failed to get free port",
     "failed to create round tripper", "context cancelled",
     "timeout waiting for port forward to be ready"}

\* C11: a call that returns a failure before it launched its tunnel leaves a
\* failed session with a reason under its key, and a call that gives up
\* while its session is in the table leaves that session failed with a reason.
C11_FailureIsRecorded ==
    [][\A c \in Calls :
          /\ (ReturnStep(c) /\ pc[c] = "resolve" /\ ret'[c].err \in StartFailures) =>
                /\ key[c] \in DOMAIN forwards'
                /\ fw'[forwards'[key[c]]].ForwardingState = "failed"
                /\ fw'[forwards'[key[c]]].FailureReason # ""
          /\ (pc[c] = "wait" /\ pc'[c] \in {"cancelled", "timedout"} /\ InTable(c)) =>
                /\ forwards' = forwards
                /\ fw'[c].ForwardingState = "failed"
                /\ fw'[c].FailureReason # ""]_vars

\* C12: a call that finds no pods and no endpoint addresses returns the
\* no-pods error, and the table holds its session under the key, failed
\* with that reason.
C12_NoEndpointsRecorded ==
    [][\A c \in Calls :
          (ReturnStep(c) /\ ret'[c].err = "no pods found")
          => /\ ret'[c].port = 0
             /\ key[c] \in DOMAIN forwards'
             /\ forwards'[key[c]] = c
             /\ fw'[c].ForwardingState = "failed"
             /\ fw'[c].FailureReason = "No pods found for service"]_vars

\* A call returned the no-pods error and its failed session is in the table.
C12_Witness ==
    \E c \in Calls :
        /\ pc[c] = "done"
        /\ ret[c].err = "no pods found"
        /\ InTable(c)
        /\ fw[c].FailureReason = "No pods found for service"

\* C13, as claimed: a call that finds its preferred local port taken returns
\* the port-in-use error and leaves the table as it was.
C13_PortInUseTableUnaffected ==
    [][\A c \in Calls :
          (ReturnStep(c) /\ ret'[c].err = "port is already in use")
          => /\ forwards' = forwards
             /\ \A k \in DOMAIN forwards : fw'[forwards[k]] = fw[forwards[k]]]_vars

\* C13, amended: such a call returns the port-in-use error and stores its
\* session under the key, failed with the reason "Port is already in use"
\* and without a local port, in place of whatever the key held; the other
\* keys stay as they are, no tunnel is launched, and the session stays failed.
C13_PortInUseRecordsFailed ==
    [][\A c \in Calls :
          /\ (ReturnStep(c) /\ ret'[c].err = "port is already in use") =>
                /\ pref[c] \in bound
                /\ ret'[c].port = 0
                /\ forwards' = Put(forwards, key[c], c)
                /\ fw'[c].ForwardingState = "failed"
                /\ fw'[c].FailureReason = "Port is already in use"
                /\ fw'[c].LocalPort = 0
                /\ \A d \in Calls \ {c} : fw'[d] = fw[d]
                /\ UNCHANGED <<worker, bound>>
          /\ ret[c].err = "port is already in use" =>
                /\ fw'[c].ForwardingState = "failed"
                /\ worker'[c] = "none"]_vars

\* A call for a taken local port returned the port-in-use error, and the
\* table holds its failed session.
C13_Witness ==
    \E c \in Calls :
        /\ pc[c] = "done"
        /\ pref[c] \in bound
        /\ ret[c].err = "port is already in use"
        /\ InTable(c)
        /\ fw[c].ForwardingState = "failed"

\* C14: a session of the table that is failed stays failed for as long as
\* it is in the table.
C14_FailedIsTerminal ==
    [][\A c \in Calls :
          (InTable(c) /\ fw[c].ForwardingState = "failed" /\ key[c] \in DOMAIN forwards'
              /\ forwards'[key[c]] = c)
          => fw'[c].ForwardingState = "failed"]_vars

\* C15: every pending or active session of the table has an empty failure
\* reason.
C15_ReasonOnlyWhenFailed ==
    \A k \in DOMAIN forwards :
        fw[forwards[k]].ForwardingState \in {"pending", "active"}
        => fw[forwards[k]].FailureReason = ""

\* C19: a SetServices whose new active sequence still holds the
\* (namespace, service, port) of the row that was selected leaves the
\* selection on the row with that (namespace, service, port).
C19_SelectionFollowsRow ==
    \A services \in Snapshots, row \in GetSelectedRow(table) :
        LET after == SetServices(table, services)
        IN (\E i \in 1..Len(getActiveRows(after)) :
               RowKey(getActiveRows(after)[i]) = RowKey(row))
           => \E sel \in GetSelectedRow(after) : RowKey(sel) = RowKey(row)

\* The selection index points into a non-empty active sequence, and no row
\* is selected in an empty one.
SelectionInRange(t) ==
    IF Len(getActiveRows(t)) > 0
    THEN t.selectedRow >= 0 /\ t.selectedRow < Len(getActiveRows(t))
    ELSE GetSelectedRow(t) = {}

\* C20: in every state the table reaches the selection index points into
\* the active sequence if that is not empty, and every operation keeps it
\* so; on an empty active sequence MoveUp, MoveDown and SetSelected change
\* nothing and no row is selected.
C20_SelectionInRange ==
    /\ SelectionInRange(table)
    /\ SelectionInRange(MoveUp(table))
    /\ SelectionInRange(MoveDown(table))
    /\ \A index \in -1..MaxRows : SelectionInRange(SetSelected(table, index))
    /\ Len(getActiveRows(table)) = 0 =>
          /\ MoveUp(table) = table
          /\ MoveDown(table) = table
          /\ \A index \in -1..MaxRows : SetSelected(table, index) = table

\* The selection is on the last row of a filtered sequence of several rows.
C20_Witness ==
    /\ FiltersActive(table)
    /\ Len(getActiveRows(table)) > 1
    /\ table.selectedRow = Len(getActiveRows(table)) - 1

\* C16: what a caller reads through the result of a query is what the query
\* returned: no later change of the manager shows through it.
C16_QueriesReturnCopies == Observed(got) = got.val

\* C17: a start on the port the user typed, for a key that has no pending
\* or active session and no other start in progress, on a local port that
\* is free, is not rejected at the existence check.
C17_UserPortStartProceeds ==
    [][\A c \in Calls :
          (/\ CheckStep(c)
           /\ cmd'[c].branch = "user"
           /\ isPortAvailable(pref'[c])
           /\ \A d \in Calls \ {c} :
                 key[d] = key'[c] =>
                    /\ ~InProgress(d)
                    /\ InTable(d) => fw[d].ForwardingState \notin {"pending", "active"})
          => /\ pc'[c] = "resolve"
             /\ ret'[c].err # "already active"]_vars

\* C18: a port conflict message puts the loop in the port-input view with
\* the conflicting port and the remote port recorded and the input empty;
\* a start on a local port other than the service port is made only by the
\* command of Enter in that view, on the port typed, and no start picks a
\* local port other than the one it was asked for.
C18_ConflictAsksForPort ==
    [][\A c \in Calls :
          /\ (cmd[c].msg = "portConflictMsg" /\ cmd'[c].msg = "delivered") =>
                /\ IsAlreadyInUse(ret[c].err)
                /\ viewMode' = "portInputView"
                /\ conflictPort' = pref[c]
                /\ remotePort' = key[c]
                /\ portInput' = 0
          /\ (cmd[c].name = "none" /\ cmd'[c].name = "startPortForwardWithUserPort") =>
                viewMode = "portInputView"
          /\ (pc'[c] # "idle" /\ pref'[c] # key'[c]) =>
                /\ cmd'[c].branch = "user"
                /\ pref'[c] = cmd'[c].port
          /\ fw'[c].LocalPort \in {0, pref'[c]}]_vars

\* The conflict of a start on a taken service port has put the loop in the
\* port-input view.
C18_Witness ==
    \E c \in Calls :
        /\ cmd[c].branch = "start"
        /\ cmd[c].msg = "delivered"
        /\ ret[c].err = "port is already in use"
        /\ viewMode = "portInputView"
        /\ conflictPort = pref[c]
        /\ conflictPort \in bound
        /\ remotePort = key[c]

\* The (namespace, service, port) of the rows of a slice, in its order.
RowKeysOf(rows) == [i \in 1..Len(rows) |-> RowKey(rows[i])]

\* a is what is left of b when some of its elements are taken out.
IsSubsequence(a, b) ==
    \E f \in [1..Len(a) -> 1..Len(b)] :
        /\ \A i \in 1..Len(a) : a[i] = b[f[i]]
        /\ \A i, j \in 1..Len(a) : i < j => f[i] < f[j]

StatusKeeps(row, value) ==
    CASE value = StatusActive -> row.ForwardingState = "active"
      [] value = StatusInactive -> row.ForwardingState # "active"
      [] value = StatusPending -> row.ForwardingState = "pending"
      [] value = StatusFailed -> row.ForwardingState = "failed"
      [] OTHER -> TRUE

\* The filter maps ApplyFilters is tried with: one status or name filter, or both.
StatusAndNameFilters ==
    LET status == {StatusActive, StatusInactive, StatusPending, StatusFailed}
        name == {<<"a", "P">>, <<"w">>}
    IN {[x \in {"status"} |-> v] : v \in status}
       \cup {[x \in {"name"} |-> n] : n \in name}
       \cup {[x \in {"status", "name"} |-> IF x = "status" THEN v ELSE n] :
                v \in status, n \in name}

\* C22: ApplyFilters keeps exactly the rows that satisfy every filter of the
\* map; a status filter keeps the rows in the state it names (pending, failed,
\* active), and for inactive the rows that are not active.
C22_FiltersKeepExactly ==
    \A filters \in StatusAndNameFilters :
        RowKeysOf(ApplyFilters(table, filters).filteredRows)
            = RowKeysOf(SelectSeq(table.rows, LAMBDA row :
                  \A filterKey \in DOMAIN filters :
                      IF filterKey = "status"
                      THEN StatusKeeps(row, ToLower(filters[filterKey]))
                      ELSE matchesFilters(row, [x \in {filterKey} |-> filters[x]])))

\* C24: ApplyFilters with an empty map after a non-empty filter makes the
\* active sequence the full row sequence again, in the order the rows had
\* before the filter: from the table as it is, and from a table that has
\* been filtered.
C24_FilterRoundTrip ==
    /\ \A filters \in StatusAndNameFilters :
           getActiveRows(ApplyFilters(ApplyFilters(table, filters), <<>>)) = table.rows
    /\ FiltersActive(table) => getActiveRows(ApplyFilters(table, <<>>)) = table.rows

\* A filter is active that keeps only some of several rows.
C24_Witness ==
    /\ FiltersActive(table)
    /\ Len(table.rows) >= 2
    /\ Len(table.filteredRows) \in 1..(Len(table.rows) - 1)

\* C25: for every sort field and direction SortBy gives one order, which
\* depends on the rows, the field and the direction only.
C25_SortIsDeterministic ==
    \A field \in SortFields, ascending \in BOOLEAN :
        \A t1, t2 \in SortBy(table, field, ascending) :
            RowKeysOf(t1.rows) = RowKeysOf(t2.rows)

\* No two rows of the slice have the same name and port.
NoNameTies(rows) ==
    \A i, j \in 1..Len(rows) :
        i # j => (rows[i].Name # rows[j].Name \/ rows[i].Port # rows[j].Port)

Reverse(seq) == [i \in 1..Len(seq) |-> seq[Len(seq) + 1 - i]]

C27_SelectionInWindow ==
    LET availableRows == table.height - 2
        len == Len(getActiveRows(table))
    IN len > 0 =>
          /\ table.selectedRow >= table.offset
          /\ table.selectedRow < table.offset + availableRows
          /\ table.offset <= (IF len - availableRows > 0 THEN len - availableRows ELSE 0)

\* The rows that have the term, whatever its case, inside one of their text
\* fields.
HasTerm(row, term) ==
    \E field \in searchFields(row) : Contains(ToLower(field), ToLower(term))

\* C23: in the filter view with filter type all and a search term typed,
\* Enter leaves as the active sequence exactly the rows that have the term
\* in one of their text fields (no other filter being active).
C23_EnterSearchesAllFields ==
    [][(/\ UpdateFilterKeyEnter
        /\ filterType = ""
        /\ filterInput # <<>>
        /\ ~FiltersActive(table))
       => RowKeysOf(getActiveRows(table'))
              = RowKeysOf(SelectSeq(table.rows, LAMBDA row : HasTerm(row, filterInput)))]_vars

\* Command c takes the step in which it reads the selected row and decides
\* what to do, and the step in which it returns its message.
CommandReads(c) == cmd[c].name # "none" /\ cmd[c].branch = "none" /\ cmd'[c].branch # "none"
CommandReturns(c) == cmd[c].name # "none" /\ cmd[c].msg = "none" /\ cmd'[c].msg # "none"

\* C28: a command that runs off the loop neither writes the view state nor
\* reads it: what it does is fixed by the row Update saw when the key was
\* pressed (its port, and whether it was inactive), and the table, the view
\* mode and the port input change in steps of Update only.
C28_CommandsLeaveModel ==
    [][\A c \in Calls :
          /\ (CommandReads(c) \/ CommandReturns(c))
                 => UNCHANGED <<table, viewMode, portInput>>
          /\ (CommandReads(c) /\ cmd[c].name = "startPortForward")
                 => /\ key'[c] = cmd[c].port
                    /\ cmd[c].pending # "none" => cmd'[c].branch = "start"]_vars

\* C29: the stop channel of a session is closed at most once, whatever the
\* order of StopForward, StopAll and the timeout or cancel path of its
\* start: no goroutine panics on a close of a closed channel.
C29_StopChanClosedOnce == ~panicked

\* Call c has stored its session and waits, or is past its wait.
Stored(c) == pc[c] \in {"wait", "cancelled", "timedout", "done", "panicked"}

\* C30: once the pending session of a key has been removed while its start
\* waits, no later step of that start puts an entry for the key back: the key
\* comes back only in a step of another start, which stores its own session.
C30_StoppedStaysAbsent ==
    [][\A c \in Calls :
          (/\ Stored(c)
           /\ key[c] \notin DOMAIN forwards
           /\ key[c] \in DOMAIN forwards')
          => \E d \in Calls \ {c} :
                /\ forwards'[key[c]] = d
                /\ ~Stored(d)
                /\ pc'[d] # pc[d]]_vars

\* A start waits whose session StopForward or StopAll has closed and
\* removed, and its tunnel has reported: the readiness step comes next.
C30_Witness ==
    \E c \in Calls :
        /\ pc[c] = "wait"
        /\ key[c] \notin DOMAIN forwards
        /\ fw[c].StopChan = "closed"
        /\ fw[c].ReadyChan = "closed"

\* A step in which the monitor of call c takes the error from errChan.
WorkerReportsError(c) ==
    worker[c] \in {"new", "listening"} /\ worker'[c] = "forwardFailed"

\* C31: a tunnel worker that reports a forwarding error after its own
\* session was stopped changes the record of no other session, in particular
\* not that of a session registered under the same key since.
C31_WorkerMarksOwnSession ==
    [][\A c \in Calls :
          (WorkerReportsError(c) /\ fw[c].StopChan = "closed")
             => \A d \in Calls \ {c} : fw'[d] = fw[d]]_vars


\* A start that is blocked: on the pod list and the port probe, or in the
\* select on readiness, cancellation and the timeout.
Waiting(c) == pc[c] \in {"resolve", "wait"}

\* The StopForward or StopAll that holds m.mu has its next step enabled.
HolderCanGoOn ==
    CASE mu.op = "StopForward" -> ENABLED StopForwardClose
      [] mu.op = "StopAll" -> ENABLED (StopAllNext \/ StopAllReturn)
      [] mu.op = "StopAllClose" -> ENABLED StopAllClose
      [] OTHER -> FALSE

PendingDelivered(c) == cmd[c].pending = "queued" /\ cmd'[c].pending = "delivered"

\* The started or failed message of command c has been handed to Update.
ResultApplied(c) ==
    /\ cmd[c].msg = "delivered"
    /\ cmd[c].branch \in {"start", "retry"}
    /\ ~IsAlreadyInUse(ret[c].err)

\* C35: the portForwardPendingMsg batched with a start changes no row once
\* the started or failed message of that start has been applied.
C35_PendingNeverOverwritesResult ==
    [][\A c \in Calls :
          (PendingDelivered(c) /\ ResultApplied(c)) => table' = table]_vars


\* The forwarding state and the local port the manager holds for a key.
ManagerState(k) == IF Exists(k) THEN fw[forwards[k]].ForwardingState ELSE "inactive"
ManagerPort(k) == IF Exists(k) THEN fw[forwards[k]].LocalPort ELSE 0

\* Every row carries what the manager holds for its port.
RowsAgreeWithManager(rows) ==
    \A i \in 1..Len(rows) :
       /\ rows[i].ForwardingState = ManagerState(rows[i].Port)
       /\ rows[i].ForwardingPort = ManagerPort(rows[i].Port)

\* The servicesLoadedMsg of command c is handed to Update while the manager
\* still holds what loadServices read.
ReloadApplied(c) ==
    /\ cmd[c].msg = "servicesLoadedMsg"
    /\ cmd'[c].msg = "delivered"
    /\ cmd[c].services = loadServices

\* C33: once a servicesLoadedMsg of loadServices is applied, with the manager
\* unchanged since loadServices ran, every row has the forwarding state and
\* local port of the manager's session for its port, and a row without a
\* session is inactive with local port 0.
C33_RowsMatchManagerAfterLoad ==
    [][\A c \in Calls :
          ReloadApplied(c) => /\ RowsAgreeWithManager(table'.rows)
                              /\ RowsAgreeWithManager(getActiveRows(table'))]_vars

\* A refresh has been applied: one row shows the active session of its port
\* with its local port, another has no session.
C33_Witness ==
    \E c \in Calls :
       /\ cmd[c].name = "loadServices"
       /\ cmd[c].msg = "delivered"
       /\ cmd[c].services = loadServices
       /\ RowsAgreeWithManager(table.rows)
       /\ \E i, j \in 1..Len(table.rows) :
             /\ table.rows[i].ForwardingState = "active"
             /\ table.rows[i].ForwardingPort > 0
             /\ ~Exists(table.rows[j].Port)


\* C40: previousView is never the error modal itself, so a dismiss key in
\* the error modal always leaves the modal.
C40_DismissLeavesModal == previousView # "errorModalView"


\* C39: the active-forwards counter is never negative and equals the number
\* of rows of the full sequence whose forwarding state is active.
C39_CounterCountsActiveRows ==
    /\ activeForwardsCount >= 0
    /\ activeForwardsCount = ActiveCount(table.rows)


\* The portForwardStartedMsg or portForwardStoppedMsg of command c is handed
\* to Update.
StartedOrStoppedApplied(c) ==
    /\ cmd[c].msg \in {"portForwardStartedMsg", "portForwardStoppedMsg"}
    /\ cmd'[c].msg = "delivered"

\* C34: a portForwardStartedMsg or portForwardStoppedMsg changes no row but
\* the row of the port whose start or stop produced it, wherever the
\* selection is when the message is applied.
C34_ResultChangesOwnRowOnly ==
    [][\A c \in Calls :
          StartedOrStoppedApplied(c) =>
             \A i \in 1..Len(table.rows) :
                table.rows[i].Port # key[c] => table'.rows[i] = table.rows[i]]_vars


\* The filters are cleared in this step.
FiltersCleared == FiltersActive(table) /\ ~FiltersActive(table')

\* C37: the forwarding state and local port a row shows while a filter is
\* active, changes applied to the selected row included, are the ones the
\* row of the same (namespace, service, port) shows once the filters are
\* cleared.
C37_ClearKeepsShownState ==
    [][FiltersCleared =>
          \A i \in 1..Len(table.filteredRows), j \in 1..Len(getActiveRows(table')) :
             RowKey(table.filteredRows[i]) = RowKey(getActiveRows(table')[j])
                => /\ getActiveRows(table')[j].ForwardingState
                         = table.filteredRows[i].ForwardingState
                   /\ getActiveRows(table')[j].ForwardingPort
                         = table.filteredRows[i].ForwardingPort]_vars


\* The tunnel worker of call c runs and its cancel signal has not been sent.
TunnelRunning(c) == worker[c] \in {"new", "listening"} /\ fw[c].StopChan = "open"

\* C36: the entry of a session whose tunnel worker runs uncancelled is never
\* replaced by another session, so StopForward and StopAll still reach the
\* worker through the table.
C36_RunningEntryNotOverwritten ==
    [][\A k \in DOMAIN forwards :
          (TunnelRunning(forwards[k]) /\ k \in DOMAIN forwards')
             => forwards'[k] = forwards[k]]_vars


\* C38: in a non-empty active sequence the row at index selectedRow has its
\* Selected flag set and no other row has.
C38_OneRowFlaggedSelected ==
    Len(getActiveRows(table)) > 0 =>
       \A i \in 1..Len(getActiveRows(table)) :
          getActiveRows(table)[i].Selected <=> (i = table.selectedRow + 1)


====
